---- MODULE Spec2Model ----
(***************************************************************************)
(* A model of the document indexing and retrieval pipeline of rag_chain.py *)
(* (mindly): course naming, indexing with replace semantics, retrieval     *)
(* through Streamlit's two caches, course status and deletion, over a      *)
(* cloud vector store with a local fallback store.                         *)
(*                                                                         *)
(* Text is a sequence of one-character strings.  Every handler is one      *)
(* action.  The environment is the remote connection: a call on the cloud  *)
(* client may fail at any time (the booleans and the fault stage the       *)
(* actions take); the local persistent store and the local file system do  *)
(* not fail.                                                               *)
(***************************************************************************)
EXTENDS Integers, Sequences, FiniteSets, TLC

(***************************** bounds **************************************)
\* Largest number of passages a collection is let grow to.
MaxDocs == 3
\* Handler calls in one run.
MaxOps == 3

\* Longest text of the alphabet given to the naming functions.
MaxLen == 3

(***************************** constants ***********************************)
TOP_K == 5
\* ttl of st.cache_data on _get_relevant_documents, in seconds
TTL == 300
\* ChromaDB's limits on the length of a collection name
MinNameLen == 3
MaxNameLen == 63
\* Seconds the clock advances in one step of Tick
TickSeconds == 150

(***************************** text ****************************************)
UpperCase == <<"A", "B", "C", "D", "E", "F", "G", "H", "I", "J", "K", "L", "M",
               "N", "O", "P", "Q", "R", "S", "T", "U", "V", "W", "X", "Y", "Z">>
LowerCase == <<"a", "b", "c", "d", "e", "f", "g", "h", "i", "j", "k", "l", "m",
               "n", "o", "p", "q", "r", "s", "t", "u", "v", "w", "x", "y", "z">>
Digits == {"0", "1", "2", "3", "4", "5", "6", "7", "8", "9"}
Whitespace == {" ", "\t", "\n", "\r"}

\* str.lower() on one character
LowerChar(ch) ==
    IF \E i \in 1..26 : UpperCase[i] = ch
    THEN LowerCase[CHOOSE i \in 1..26 : UpperCase[i] = ch]
    ELSE ch

\* str.lower()
Lower(s) == [i \in 1..Len(s) |-> LowerChar(s[i])]

\* str.strip(chars): drops the characters of the set at both ends
StripSet(s, chars) ==
    LET keep == {i \in 1..Len(s) : s[i] \notin chars}
    IN  IF keep = {} THEN <<>>
        ELSE LET lo == CHOOSE i \in keep : \A j \in keep : i <= j
                 hi == CHOOSE i \in keep : \A j \in keep : j <= i
             IN  SubSeq(s, lo, hi)

\* a character of the class [a-z0-9]
IsSlugChar(ch) == (\E i \in 1..26 : LowerCase[i] = ch) \/ ch \in Digits

\* re.sub(r"[^a-z0-9]+", "-", s): every maximal run outside [a-z0-9] becomes one hyphen
RECURSIVE SubRuns(_)
SubRuns(s) ==
    IF s = <<>> THEN <<>>
    ELSE IF IsSlugChar(s[1]) THEN <<s[1]>> \o SubRuns(Tail(s))
    ELSE IF Len(s) > 1 /\ ~IsSlugChar(s[2]) THEN SubRuns(Tail(s))
    ELSE <<"-">> \o SubRuns(Tail(s))

\* A slug that keeps the hyphens at its ends.
UnstrippedSlug(text) == SubRuns(Lower(StripSet(text, Whitespace)))
\* _slugify: strip and lower, replace the runs, strip the hyphens
_slugify(text) == StripSet(SubRuns(Lower(StripSet(text, Whitespace))), {"-"})

CoursePrefix == <<"c", "o", "u", "r", "s", "e", "-">>

\* A collection name that is never cut.
UncutName(course_name) == CoursePrefix \o _slugify(course_name)
\* _get_collection_name: the prefixed slug, cut to the limit
_get_collection_name(course_name) ==
    LET collection_name == CoursePrefix \o _slugify(course_name)
    IN  IF Len(collection_name) > MaxNameLen
        THEN SubSeq(collection_name, 1, MaxNameLen)
        ELSE collection_name

\* str.upper() on one character
UpperChar(ch) ==
    IF \E i \in 1..26 : LowerCase[i] = ch
    THEN UpperCase[CHOOSE i \in 1..26 : LowerCase[i] = ch]
    ELSE ch

\* a character with a case
IsCased(ch) == \E i \in 1..26 : LowerCase[i] = ch \/ UpperCase[i] = ch

\* str.title(): a letter is put in upper case after a character that is no
\* letter and at the start, in lower case after a letter
Title(s) ==
    [i \in 1..Len(s) |->
        IF i > 1 /\ IsCased(s[i - 1]) THEN LowerChar(s[i]) ELSE UpperChar(s[i])]

\* str.startswith
StartsWith(s, prefix) == Len(s) >= Len(prefix) /\ SubSeq(s, 1, Len(prefix)) = prefix

\* A listing that cuts one character more than the prefix.
ListedShort(collection_name) ==
    Title([i \in 1..(Len(collection_name) - 8) |->
            IF collection_name[i + 8] = "-" THEN " " ELSE collection_name[i + 8]])
\* list_all_courses, for one collection: collection.name[7:].replace("-", " ").title()
ListedName(collection_name) ==
    Title([i \in 1..(Len(collection_name) - 7) |->
            IF collection_name[i + 7] = "-" THEN " " ELSE collection_name[i + 7]])

\* The backend creates a collection only under a name of 3 to 63 characters
\* that begins and ends with a letter or a digit.
ValidName(collection_name) ==
    /\ Len(collection_name) >= MinNameLen
    /\ Len(collection_name) <= MaxNameLen
    /\ IsSlugChar(collection_name[1])
    /\ IsSlugChar(collection_name[Len(collection_name)])

\* utils.slugify: strip and lower, replace the runs, strip the hyphens
slugify(text) ==
    LET lowered == Lower(StripSet(text, Whitespace))
        replaced == SubRuns(lowered)
    IN  StripSet(replaced, {"-"})

\* str.endswith
EndsWith(s, suffix) ==
    Len(s) >= Len(suffix) /\ SubSeq(s, Len(s) - Len(suffix) + 1, Len(s)) = suffix

(***************************** inputs **************************************)
\* Course names the sessions use: two names of one slug, and one of another.
Physics == <<"P", "h">>
PhysicsAlias == <<" ", "p", "h", "!">>
Quantum == <<"Q">>
\* A name of punctuation only: its slug is empty.
Blank == <<"!">>
AllCourses == {Physics, PhysicsAlias, Quantum, Blank}
Courses == {Physics, Quantum}
\* _get_collection_name and _slugify of the course names, computed once
NameOf == [c \in AllCourses |-> _get_collection_name(c)]
SlugOf == [c \in AllCourses |-> _slugify(c)]
CollectionNames == {NameOf[c] : c \in AllCourses}
Slugs == {SlugOf[c] : c \in AllCourses}

\* The texts given to the naming functions: every text of at most MaxLen
\* characters of a small alphabet, the course name of the specification's
\* scenario, and names whose collection name reaches the length limit.
Chars == {"A", "b", "1", "-", " ", "!"}
ScenarioName ==
    <<"D", "a", "t", "a", " ", "S", "t", "r", "u", "c", "t", "u", "r", "e",
      "s", " ", "&", " ", "A", "l", "g", "o", "r", "i", "t", "h", "m", "s",
      "!", "!">>
LongNames ==
    {[i \in 1..n |-> IF i = MaxNameLen - Len(CoursePrefix) THEN "&" ELSE "a"] :
        n \in (MaxNameLen - Len(CoursePrefix) - 1)..(MaxNameLen + 1)}
Texts == UNION {[1..n -> Chars] : n \in 0..MaxLen} \cup {ScenarioName} \cup LongNames

Queries == {"q1", "q2"}
Ks == {1, TOP_K}

\* An uploaded file: its name, whether the reader accepts its bytes, and the
\* chunks _split returns for its extracted text.
FileA == [name |-> <<"a", ".", "t", "x", "t">>, readable |-> TRUE,
          chunks |-> <<<<" ", "\n">>, <<"a", " ">>>>]
FileB == [name |-> <<"b", ".", "P", "D", "F">>, readable |-> TRUE,
          chunks |-> <<<<"b">>>>]
FileC == [name |-> <<"c", ".", "m", "d">>, readable |-> TRUE,
          chunks |-> <<<<"c">>>>]
FileE == [name |-> <<"e", ".", "t", "x", "t">>, readable |-> TRUE,
          chunks |-> <<<<" ">>>>]
FileX == [name |-> <<"x", ".", "p", "d", "f">>, readable |-> FALSE,
          chunks |-> <<>>]
Files == {FileA, FileB, FileC, FileE, FileX}

\* The batches the sessions upload: to the first course every batch, to the
\* other course one file.
Batches == {<<>>, <<FileA>>, <<FileB>>, <<FileA, FileC, FileB>>, <<FileC, FileE>>,
            <<FileA, FileX>>}
BatchesOf(c) == IF c = Quantum THEN {<<FileB>>} ELSE Batches
\* The searches the sessions run.
SearchesOf(c) == IF c = Quantum THEN {<<"q1", TOP_K>>} ELSE {<<"q1", 1>>, <<"q2", TOP_K>>}

(***************************** state ***************************************)
VARIABLES
    useCloud,   \* USE_CLOUD_CHROMA, read from the environment at import
    store,      \* the collections of the two backends, by collection name
    files,      \* FILES_ROOT: per course slug, the directory and the files in it
    rc,         \* st.cache_resource: the client, the embedding model, the vector stores
    dc,         \* st.cache_data: the results of _get_relevant_documents
    ops,        \* handler calls so far
    last,       \* the last handler call: its arguments, what it met, what it returned
    made,       \* how many clients and embedding models the process has constructed
    given,      \* the text given to a naming function
    named,      \* what the naming function returned
    pc,         \* per session thread, the step its handler call is at
    loc,        \* per session thread, the local variables of its handler call
    lock,       \* the compute locks of st.cache_resource: who holds each
    clears,     \* how often st.cache_resource.clear() has run
    smart       \* a SmartCache: its tables, the clock, the call in progress

vars == <<useCloud, store, files, rc, dc, ops, last, made, given, named,
          pc, loc, lock, clears, smart>>
\* the state of the pipeline, and the state of a call of a naming function
pipeline == <<useCloud, store, files, rc, dc, ops, last, made>>
naming == <<given, named>>
\* the state of the session threads that run handlers step by step
threads == <<pc, loc, lock, clears>>

\* No naming function was called.
NoNamed ==
    [op |-> "none", rag |-> <<>>, again |-> <<>>, utils |-> <<>>, name |-> <<>>,
     chunks |-> <<>>]

Backends == {"cloud", "local"}

\* A collection that does not exist.
NoCollection == [exists |-> FALSE, docs |-> <<>>]
\* A directory that does not exist.
NoDir == [exists |-> FALSE]
\* os.path.join(FILES_ROOT, course_slug): the directory of the empty slug is
\* FILES_ROOT itself, and every other directory lies in it.
Root == <<>>
\* _ensure_dir(FILES_ROOT) at import: the root exists, no course directory does
RootOnly == [s \in Slugs |-> [exists |-> s = Root]]
\* _ensure_dir: the directory and its parents exist afterwards
_ensure_dir(dirs, slug) ==
    [s \in Slugs |-> IF s \in {slug, Root} THEN [exists |-> TRUE] ELSE dirs[s]]
\* shutil.rmtree: the directory is removed with everything in it
RemoveTree(dirs, slug) ==
    [s \in Slugs |-> IF s = slug \/ slug = Root THEN NoDir ELSE dirs[s]]

\* An entry of st.cache_resource for _get_vectorstore: nothing cached, a cached
\* None, or a cached Chroma wrapper.  The wrapper holds the collection it was
\* built on: live is FALSE once that collection has been deleted (a collection
\* created later under the same name is another collection).
NoEntry == [kind |-> "miss", be |-> "none", name |-> <<>>, live |-> FALSE]
NoneEntry == [kind |-> "none", be |-> "none", name |-> <<>>, live |-> FALSE]
Wrapper(be, name) == [kind |-> "vs", be |-> be, name |-> name, live |-> TRUE]

\* st.cache_resource.clear()
EmptyResourceCache == [client |-> "none", emb |-> FALSE, vs |-> [c \in AllCourses |-> NoEntry]]

\* An entry of st.cache_data: the value and the seconds since it was stored.
DataKeys == AllCourses \X Queries \X Ks
NoData == [hit |-> FALSE, val |-> <<>>, age |-> 0]
\* st.cache_data.clear()
EmptyDataCache == [key \in DataKeys |-> NoData]

NoStatus == [has_vectorstore |-> FALSE, document_count |-> 0, is_ready |-> FALSE,
             using_cloud |-> FALSE, error |-> FALSE, collection_name |-> <<>>]

\* The record of a handler call: the arguments (course, q, k, batch), the
\* client it used (be), what it returned (ret: the count of
\* save_upload_and_index; done: the boolean of delete_course; docs: the
\* passages of _get_relevant_documents, or the texts save_upload_and_index
\* had extracted; status; raised: an exception left the handler), and what it
\* met: the course's collection (had) and directory (hadDir) before the call,
\* whether the cloud did not answer the heartbeat and the local client was
\* made instead (fallback), whether a call on the client or the model load
\* failed (fault), whether save_upload_and_index removed the collection
\* (deleted) and the step at which its try block failed (failed), whether the
\* result came from st.cache_data (cached),
\* whether the call followed a
\* delete_course of the same course (repeat), and whether it changed the
\* collections or the directories.
NoCall == [op |-> "none", course |-> <<>>, q |-> "", k |-> 0, batch |-> <<>>,
           be |-> "none", ret |-> 0, done |-> FALSE, docs |-> <<>>,
           status |-> NoStatus, raised |-> FALSE,
           had |-> NoCollection, hadDir |-> FALSE,
           fallback |-> FALSE, fault |-> FALSE, deleted |-> FALSE, failed |-> "none",
           cached |-> FALSE, repeat |-> FALSE,
           storeChanged |-> FALSE, filesChanged |-> FALSE]

\* The constructions of a call that found the resource cache as before and
\* left it as after (before st.cache_resource.clear(), when the call clears
\* it): _get_chromadb_client and _get_embeddings run their bodies when the
\* cache holds no value for them, and a body that returns has constructed.
NoneMade == [client |-> 0, emb |-> 0]
Constructed(m, before, after) ==
    [client |-> m.client + (IF before.client = "none" /\ after.client # "none" THEN 1 ELSE 0),
     emb |-> m.emb + (IF ~before.emb /\ after.emb THEN 1 ELSE 0)]

\* The session threads: one that indexes and deletes, one that reads.
Threads == {"writer", "reader"}
\* The functions st.cache_resource memoises without an argument.
Resources == {"client", "emb"}
\* The local variables of a thread: the handler it runs (op) with its
\* arguments, the cached function it is calling (fn) and the step it goes on
\* with afterwards (back), the instances it was given (the n-th client, the
\* n-th model constructed), whether a lookup that missed found the value once
\* it had the compute lock (raced), the texts and the collection a save
\* replaces (texts, old; replacing from its delete to the end of its add), the
\* collection handle or wrapper it holds (live until that collection is
\* deleted), and what the handler returned (status, docs).
\* SmartCache.__init__: the limits and three empty tables.  A table is the
\* sequence of its entries in insertion order.  The record also holds the
\* clock (time.time()), the set call in progress (pc, key, value, the cache it
\* found: before, the passes of its loop: spin) and the last call completed
\* (op, its key and ttl, what it returned: ret, what it met: note; flip
\* changes with every call).
SmartCache(max_size, default_ttl) ==
    [max_size |-> max_size, default_ttl |-> default_ttl,
     cache |-> <<>>, access_times |-> <<>>, creation_times |-> <<>>,
     now |-> 0, pc |-> "idle", key |-> "", value |-> "", ttl |-> <<>>,
     before |-> <<>>, spin |-> 0, op |-> "none", ret |-> "None", note |-> "",
     flip |-> 0]
\* SmartCache(): max_size = 100, default_ttl = 300
NoSmart == SmartCache(100, 300)
NoLocal == [op |-> "idle", q |-> "", k |-> 0, fn |-> "none", back |-> "idle",
            client |-> 0, emb |-> 0, raced |-> FALSE,
            texts |-> <<>>, old |-> NoCollection, replacing |-> FALSE,
            live |-> FALSE, status |-> NoStatus, docs |-> <<>>]
\* No thread runs a handler.
NoThreads ==
    /\ pc = [t \in Threads |-> "idle"]
    /\ loc = [t \in Threads |-> NoLocal]
    /\ lock = [r \in Resources |-> "none"]
    /\ clears = 0

Init ==
    /\ useCloud \in BOOLEAN
    /\ store = [be \in Backends |-> [n \in CollectionNames |-> NoCollection]]
    /\ files = RootOnly
    /\ rc = EmptyResourceCache
    /\ dc = EmptyDataCache
    /\ ops = 0
    /\ last = NoCall
    /\ made = NoneMade
    /\ given = <<>>
    /\ named = NoNamed
    /\ NoThreads
    /\ smart = NoSmart

(***************************** the backend *********************************)
\* A call on the cloud client fails when the connection is down; the local
\* persistent client does not fail.
Fails(be, ok) == be = "cloud" /\ ~ok

\* A client construction that keeps the cloud client whatever the heartbeat said.
ClientUnchecked(cache, cloudOk) ==
    IF cache.client # "none" THEN cache.client
    ELSE IF useCloud THEN "cloud"
    ELSE "local"
\* _get_chromadb_client: the cached client, else a cloud client when the cloud
\* is selected and answers the heartbeat, else the local persistent client.
ClientFor(cache, cloudOk) ==
    IF cache.client # "none" THEN cache.client
    ELSE IF useCloud /\ cloudOk THEN "cloud"
    ELSE "local"

\* _get_chromadb_client made the local client because the cloud client could
\* not be made or did not answer the heartbeat.
FellBack(cache, cloudOk) == useCloud /\ cache.client = "none" /\ ~cloudOk

\* The similarity ranking of the backend: the passages of a collection in the
\* order of their distance to the query.
Reverse(s) == [i \in 1..Len(s) |-> s[Len(s) + 1 - i]]
Ranked(docs, q) == IF q = "q1" THEN docs ELSE Reverse(docs)

\* collection.query: the k nearest passages
TopK(docs, q, k) ==
    LET r == Ranked(docs, q)
    IN  IF Len(r) <= k THEN r ELSE SubSeq(r, 1, k)

\* client.delete_collection(name) took effect: the wrappers built on the
\* collection no longer reach one
MarkDeleted(cache, be, name) ==
    [cache EXCEPT !.vs = [c \in AllCourses |->
        IF cache.vs[c].kind = "vs" /\ cache.vs[c].be = be /\ cache.vs[c].name = name
        THEN [cache.vs[c] EXCEPT !.live = FALSE]
        ELSE cache.vs[c]]]

(***************************** check_course_status *************************)
\* A readiness that takes every collection found for ready.
IsReadyWhenFound(doc_count) == doc_count >= 0
\* "is_ready": doc_count > 0
IsReady(doc_count) == doc_count > 0

\* The status check_course_status builds with client be: the defaults, updated
\* when get_collection and count both answer (ok); any exception of the two
\* calls is passed over.  Without a client the outer handler returns the error
\* status.
StatusWith(be, course_name, ok) ==
    LET collection_name == NameOf[course_name]
        coll == store[be][collection_name]
        found == coll.exists /\ ~Fails(be, ok)
        doc_count == Len(coll.docs)
    IN  IF be = "none"
        THEN [NoStatus EXCEPT !.error = TRUE]
        ELSE [has_vectorstore |-> found,
              document_count |-> IF found THEN doc_count ELSE 0,
              is_ready |-> found /\ IsReady(doc_count),
              using_cloud |-> useCloud,
              error |-> FALSE,
              collection_name |-> collection_name]

check_course_status(course_name, cloudOk, getOk) ==
    LET be == ClientFor(rc, cloudOk)
        name == NameOf[course_name]
    IN  /\ ops < MaxOps
        /\ ops' = ops + 1
        /\ rc' = [rc EXCEPT !.client = be]
        /\ made' = Constructed(made, rc, rc')
        /\ last' = [NoCall EXCEPT !.op = "status", !.course = course_name, !.be = be,
                       !.status = StatusWith(be, course_name, getOk),
                       !.had = store[be][name],
                       !.hadDir = files[SlugOf[course_name]].exists,
                       !.fallback = FellBack(rc, cloudOk),
                       !.fault = Fails(be, getOk)]
        /\ UNCHANGED <<useCloud, store, files, dc, naming, threads, smart>>

(***************************** retrieval ***********************************)
\* The stage of a handler at which the environment fails it: "get", "probe",
\* "query", "create" and "add" are calls on the cloud client, "emb" is the load
\* of the embedding model.  A stage the handler does not reach fails nothing.
RetrieveStages == {"none", "get", "emb", "probe", "query"}
FailsAt(be, stage, s) == be = "cloud" /\ stage = s

\* The body of _get_vectorstore with client be: None when the collection is
\* missing or get_collection fails, when the embedding model does not load,
\* when the probe search fails or finds nothing; else the Chroma wrapper.
\* Returns the entry, whether the embedding model is loaded afterwards and
\* whether a call on the client or the model load failed.
VectorstoreBody(cache, be, course_name, stage) ==
    LET name == NameOf[course_name]
        coll == store[be][name]
    IN  IF ~coll.exists \/ FailsAt(be, stage, "get")
        THEN [entry |-> NoneEntry, emb |-> cache.emb, fault |-> FailsAt(be, stage, "get")]
        ELSE IF ~cache.emb /\ stage = "emb"
        THEN [entry |-> NoneEntry, emb |-> FALSE, fault |-> TRUE]
        ELSE IF FailsAt(be, stage, "probe") \/ Len(TopK(coll.docs, "test", 1)) = 0
        THEN [entry |-> NoneEntry, emb |-> TRUE, fault |-> FailsAt(be, stage, "probe")]
        ELSE [entry |-> Wrapper(be, name), emb |-> TRUE, fault |-> FALSE]

\* st.cache_resource stores what the body of _get_vectorstore returned (body)
\* under the course name, with the client be and the embedding model the body
\* asked for.
StoreVectorstore(cache, course_name, be, body, cloudOk) ==
    [entry |-> body.entry,
     cache |-> [cache EXCEPT !.client = be, !.emb = body.emb,
                             !.vs[course_name] = body.entry],
     fallback |-> FellBack(cache, cloudOk),
     fault |-> body.fault,
     be |-> be]

\* _get_vectorstore under st.cache_resource: the cached entry of the course
\* name when there is one (a cached None too), else the body's result, which
\* is cached.  Returns the entry, the cache afterwards, whether the client
\* fell back and whether a call on the client or the model load failed.
_get_vectorstore(cache, course_name, cloudOk, stage) ==
    IF cache.vs[course_name].kind # "miss"
    THEN [entry |-> cache.vs[course_name], cache |-> cache, fault |-> FALSE,
          fallback |-> FALSE, be |-> cache.client]
    ELSE StoreVectorstore(cache, course_name, ClientFor(cache, cloudOk),
                          VectorstoreBody(cache, ClientFor(cache, cloudOk), course_name, stage),
                          cloudOk)

\* _get_relevant_documents once _get_vectorstore has returned vs: the empty
\* list when it is None; else vectorstore.similarity_search(query, k) inside
\* the try, where an exception gives the empty list.
Search(vs, q, k, stage) ==
    IF vs.entry.kind = "none"
    THEN [raised |-> FALSE, docs |-> <<>>, cache |-> vs.cache,
          fallback |-> vs.fallback, fault |-> vs.fault, be |-> vs.be]
    ELSE IF ~vs.entry.live \/ FailsAt(vs.entry.be, stage, "query")
    THEN [raised |-> FALSE, docs |-> <<>>, cache |-> vs.cache,
          fallback |-> vs.fallback, fault |-> TRUE, be |-> vs.be]
    ELSE [raised |-> FALSE, docs |-> TopK(store[vs.entry.be][vs.entry.name].docs, q, k),
          cache |-> vs.cache, fallback |-> vs.fallback, fault |-> vs.fault, be |-> vs.be]

\* The body of _get_relevant_documents.
RetrieveBody(course_name, q, k, cloudOk, stage) ==
    Search(_get_vectorstore(rc, course_name, cloudOk, stage), q, k, stage)

\* A cache that serves no entry.
FreshNever(entry) == FALSE
\* An entry of st.cache_data is served until it is ttl seconds old.
Fresh(entry) == entry.hit /\ entry.age < TTL

\* st.cache_data stores what the body of _get_relevant_documents returned
\* (body) under the key, unless the body raised.
StoreResult(key, body) ==
    [raised |-> body.raised, docs |-> body.docs, cached |-> FALSE,
     rc |-> body.cache,
     dc |-> IF body.raised THEN dc
            ELSE [dc EXCEPT ![key] = [hit |-> TRUE, val |-> body.docs, age |-> 0]],
     fallback |-> body.fallback, fault |-> body.fault, be |-> body.be]

\* _get_relevant_documents under st.cache_data(ttl=300): the cached result of
\* (course_name, query, k) while it is fresh, else the body's result, which
\* is cached.
Retrieve(course_name, q, k, cloudOk, stage) ==
    IF Fresh(dc[<<course_name, q, k>>])
    THEN [raised |-> FALSE, docs |-> dc[<<course_name, q, k>>].val, cached |-> TRUE,
          rc |-> rc, dc |-> dc, fallback |-> FALSE, fault |-> FALSE, be |-> rc.client]
    ELSE StoreResult(<<course_name, q, k>>, RetrieveBody(course_name, q, k, cloudOk, stage))

_get_relevant_documents(course_name, q, k, cloudOk, stage) ==
    \E out \in {Retrieve(course_name, q, k, cloudOk, stage)} :
    \E used \in {IF out.be = "none" THEN ClientFor(rc, cloudOk) ELSE out.be} :
        /\ ops < MaxOps
        /\ ops' = ops + 1
        /\ rc' = out.rc
        /\ dc' = out.dc
        /\ made' = Constructed(made, rc, rc')
        /\ last' = [NoCall EXCEPT !.op = "retrieve", !.course = course_name,
                       !.q = q, !.k = k, !.be = used,
                       !.docs = out.docs, !.raised = out.raised,
                       !.cached = out.cached, !.fault = out.fault,
                       !.failed = IF out.fault /\ stage = "emb" THEN "emb" ELSE "none",
                       !.fallback = out.fallback,
                       !.had = store[used][NameOf[course_name]],
                       !.hadDir = files[SlugOf[course_name]].exists]
        /\ UNCHANGED <<useCloud, store, files, naming, threads, smart>>

\* get_retriever: raises ValueError when _get_vectorstore returns None.
get_retriever(course_name, cloudOk, stage) ==
    \E vs \in {_get_vectorstore(rc, course_name, cloudOk, stage)} :
        /\ ops < MaxOps
        /\ ops' = ops + 1
        /\ rc' = vs.cache
        /\ made' = Constructed(made, rc, rc')
        /\ last' = [NoCall EXCEPT !.op = "retriever", !.course = course_name,
                                  !.raised = (vs.entry.kind = "none"),
                                  !.k = TOP_K, !.fault = vs.fault, !.be = vs.be,
                                  !.failed = IF vs.fault /\ stage = "emb"
                                             THEN "emb" ELSE "none",
                                  !.fallback = vs.fallback,
                                  !.had = store[vs.be][NameOf[course_name]],
                                  !.hadDir = files[SlugOf[course_name]].exists]
        /\ UNCHANGED <<useCloud, store, files, dc, naming, threads, smart>>

(***************************** save_upload_and_index ***********************)
DotPdf == <<".", "p", "d", "f">>
DotTxt == <<".", "t", "x", "t">>

\* A loop that ends at the first file it does not read.
NextAfterSkipEnds(batch, i) == Len(batch) + 1
\* else: continue -- the loop goes on with the file after file i
NextAfterSkip(batch, i) == i + 1

\* A filter that keeps every chunk.
KeptAll(chunk) == TRUE
\* if chunk.strip(): the chunks kept
Kept(chunk) == StripSet(chunk, Whitespace) # <<>>

\* The loop over the uploaded files, from file i on: each file is written to
\* the course directory, then read by its extension (a PDF the reader rejects
\* raises, out of the function), split, and each chunk kept is appended to
\* texts and its metadata to metas.
RECURSIVE ExtractFrom(_, _, _, _, _, _)
ExtractFrom(course_name, batch, i, texts, metas, written) ==
    IF i > Len(batch)
    THEN [raised |-> FALSE, texts |-> texts, metas |-> metas, written |-> written]
    ELSE LET f == batch[i]
             dest == Lower(f.name)
             saved == written \cup {f.name}
             kept == SelectSeq(f.chunks, Kept)
             new == [j \in 1..Len(kept) |-> [source |-> f.name, course |-> course_name]]
         IN  IF EndsWith(dest, DotPdf)
             THEN IF f.readable
                  THEN ExtractFrom(course_name, batch, i + 1, texts \o kept, metas \o new, saved)
                  ELSE [raised |-> TRUE, texts |-> texts, metas |-> metas, written |-> saved]
             ELSE IF EndsWith(dest, DotTxt)
             THEN ExtractFrom(course_name, batch, i + 1, texts \o kept, metas \o new, saved)
             ELSE ExtractFrom(course_name, batch, NextAfterSkip(batch, i), texts, metas, saved)

\* Chroma.from_texts(texts=texts, metadatas=metas, ...): the passages stored,
\* text i with metadata i.
Passages(texts, metas) ==
    [j \in 1..Len(texts) |->
        [text |-> texts[j], source |-> metas[j].source, course |-> metas[j].course]]

\* The file loop of save_upload_and_index: whether it raised, the files
\* written, the lists texts (chunks) and metas it built, and the passages
\* (texts) the two lists make.
Extract(course_name, batch) ==
    LET loop == ExtractFrom(course_name, batch, 1, <<>>, <<>>, {})
    IN  [raised |-> loop.raised, written |-> loop.written,
         chunks |-> loop.texts, metas |-> loop.metas,
         texts |-> Passages(loop.texts, loop.metas)]
\* Extract of the batches, computed once
Extracted == [c \in AllCourses |-> [b \in Batches |-> Extract(c, b)]]

SaveStages == {"none", "emb", "create", "add"}

\* The try block of save_upload_and_index with client be: delete_collection
\* (any exception passed over), _get_embeddings, then Chroma.from_texts, which
\* gets or creates the collection of that name and adds the texts to it.
\* ok is FALSE when an exception reached the outer handler.
ReplaceCollection(cache, be, name, texts, delOk, stage) ==
    LET old == store[be][name]
        deleted == old.exists /\ ~Fails(be, delOk)
        store1 == IF deleted THEN [store EXCEPT ![be][name] = NoCollection] ELSE store
        cache1 == IF deleted THEN MarkDeleted(cache, be, name) ELSE cache
        embFails == ~cache.emb /\ stage = "emb"
        cache2 == [cache1 EXCEPT !.client = be, !.emb = ~embFails]
        base == store1[be][name]
    IN  IF embFails \/ FailsAt(be, stage, "create")
        THEN [ok |-> FALSE, store |-> store1, cache |-> cache2, deleted |-> deleted,
              failed |-> IF embFails THEN "emb" ELSE "create"]
        ELSE IF FailsAt(be, stage, "add")
        THEN [ok |-> FALSE, cache |-> cache2, deleted |-> deleted, failed |-> "add",
              store |-> [store1 EXCEPT ![be][name] = [exists |-> TRUE, docs |-> base.docs]]]
        ELSE [ok |-> TRUE, cache |-> cache2, deleted |-> deleted, failed |-> "none",
              store |-> [store1 EXCEPT ![be][name] =
                            [exists |-> TRUE, docs |-> base.docs \o texts]]]

\* A test of the texts that never takes the early return.
NoTextsNever(texts) == FALSE
\* if not texts: return 0
NoTexts(texts) == texts = <<>>

\* A return value that is the number of texts whatever happened.
ReturnedCount(ok, texts) == Len(texts)
\* return len(texts) at the end of the try block, return 0 in its handler
Returned(ok, texts) == IF ok THEN Len(texts) ELSE 0

\* What save_upload_and_index does once the files are read: 0 and nothing
\* touched when there is no text; else the replace, and on success the caches
\* are cleared and the number of texts is returned.
IndexTexts(texts, be, rep, cloudOk, delOk) ==
        IF NoTexts(texts)
        THEN [ret |-> 0, store |-> store, rc |-> rc, dc |-> dc, be |-> "none", cache |-> rc,
              fallback |-> FALSE, fault |-> FALSE, deleted |-> FALSE, failed |-> "none"]
        ELSE [ret |-> Returned(rep.ok, texts),
              store |-> rep.store,
              rc |-> IF rep.ok THEN EmptyResourceCache ELSE rep.cache,
              dc |-> IF rep.ok THEN EmptyDataCache ELSE dc,
              be |-> be,
              cache |-> rep.cache,
              fallback |-> FellBack(rc, cloudOk),
              fault |-> Fails(be, delOk) \/ ~rep.ok,
              deleted |-> rep.deleted, failed |-> rep.failed]

save_upload_and_index(course_name, uploaded_files, cloudOk, delOk, stage) ==
    \E course_slug \in {SlugOf[course_name]} :
    \E name \in {NameOf[course_name]} :
    \E ext \in {Extracted[course_name][uploaded_files]} :
    \E client \in {ClientFor(rc, cloudOk)} :
    \E rep \in {ReplaceCollection(rc, client, name, ext.texts, delOk, stage)} :
    \E out \in {IndexTexts(ext.texts, client, rep, cloudOk, delOk)} :
    \E dirs \in {_ensure_dir(files, course_slug)} :
    \E call \in {[NoCall EXCEPT !.op = "save", !.course = course_name,
                    !.batch = uploaded_files,
                    !.docs = ext.texts,
                    !.had = store[client][name],
                    !.hadDir = files[course_slug].exists,
                    !.filesChanged = (dirs # files)]} :
        /\ ops < MaxOps
        /\ ops' = ops + 1
        /\ files' = dirs
        /\ IF ext.raised
           THEN /\ last' = [call EXCEPT !.raised = TRUE]
                /\ UNCHANGED <<store, rc, dc, made>>
           ELSE /\ \A be \in Backends : \A n \in CollectionNames :
                       Len(out.store[be][n].docs) <= MaxDocs
                /\ store' = out.store
                /\ rc' = out.rc
                /\ dc' = out.dc
                /\ made' = Constructed(made, rc, out.cache)
                /\ last' = [call EXCEPT !.ret = out.ret, !.be = out.be, !.fault = out.fault,
                               !.fallback = out.fallback,
                               !.deleted = out.deleted, !.failed = out.failed,
                               !.storeChanged = (out.store # store)]
        /\ UNCHANGED <<useCloud, naming, threads, smart>>

(***************************** delete_course *******************************)
\* _clear_course_cache: both Streamlit caches are cleared.
_clear_course_cache(course_name) ==
    /\ rc' = EmptyResourceCache
    /\ dc' = EmptyDataCache

\* client.delete_collection inside delete_course: any exception is passed over.
DeleteCollection(be, name, delOk) ==
    IF store[be][name].exists /\ ~Fails(be, delOk)
    THEN [store EXCEPT ![be][name] = NoCollection]
    ELSE store

delete_course(course_name, cloudOk, delOk) ==
    LET be == ClientFor(rc, cloudOk)
        name == NameOf[course_name]
        course_slug == SlugOf[course_name]
        store1 == DeleteCollection(be, name, delOk)
    IN  /\ ops < MaxOps
        /\ ops' = ops + 1
        /\ store' = store1
        /\ files' = IF files[course_slug].exists
                    THEN RemoveTree(files, course_slug)
                    ELSE files
        /\ _clear_course_cache(course_name)
        /\ made' = Constructed(made, rc, [rc EXCEPT !.client = be])
        /\ last' = [NoCall EXCEPT !.op = "delete", !.course = course_name, !.be = be,
                       !.done = TRUE,
                       !.repeat = (last.op = "delete" /\ last.course = course_name),
                       !.had = store[be][name],
                       !.hadDir = files[course_slug].exists,
                       !.fallback = FellBack(rc, cloudOk),
                       !.fault = Fails(be, delOk),
                       !.storeChanged = (store1 # store),
                       !.filesChanged = files[course_slug].exists]
        /\ UNCHANGED <<useCloud, naming, threads, smart>>

(***************************** the clock ***********************************)
\* TickSeconds pass: every cached result grows older, and a result that has
\* reached its ttl is gone.
Tick ==
    /\ dc' = [key \in DataKeys |->
                IF dc[key].hit /\ dc[key].age + TickSeconds < TTL
                THEN [dc[key] EXCEPT !.age = dc[key].age + TickSeconds]
                ELSE NoData]
    /\ UNCHANGED <<useCloud, store, files, rc, ops, last, made, naming, threads, smart>>

(***************************** specification *******************************)
\* The outcomes of the connection the environment can choose in a state: the
\* heartbeat matters only when a cloud client is about to be made, a call on
\* the client only when the client is the cloud client, the model load only
\* when the model is not cached.
Heartbeats == IF useCloud /\ rc.client = "none" THEN BOOLEAN ELSE {TRUE}
CallOutcomes(cloudOk) == IF ClientFor(rc, cloudOk) = "cloud" THEN BOOLEAN ELSE {TRUE}
StagesOf(stages, cloudOk) ==
    {s \in stages :
        \/ s = "none"
        \/ s = "emb" /\ ~rc.emb
        \/ s \notin {"none", "emb"} /\ ClientFor(rc, cloudOk) = "cloud"}


\* The outcomes that matter to save_upload_and_index(c, b): none when the
\* function leaves before it asks for the client.
SaveOutcomes(c, b) ==
    IF Extracted[c][b].raised \/ NoTexts(Extracted[c][b].texts)
    THEN {<<TRUE, TRUE, "none">>}
    ELSE UNION {{<<cloudOk, delOk, stage>> :
                    delOk \in CallOutcomes(cloudOk),
                    stage \in StagesOf(SaveStages, cloudOk)} : cloudOk \in Heartbeats}

\* The outcomes that matter to _get_vectorstore(c): none when the entry is
\* cached.
VectorstoreOutcomes(c, stages) ==
    IF rc.vs[c].kind # "miss"
    THEN {<<TRUE, "none">>}
    ELSE UNION {{<<cloudOk, stage>> : stage \in StagesOf(stages, cloudOk)} :
                    cloudOk \in Heartbeats}

\* The outcomes that matter to _get_relevant_documents(c, q, k): none when the
\* result is cached, the search alone when the wrapper is cached.
RetrieveOutcomes(c, q, k) ==
    IF Fresh(dc[<<c, q, k>>])
    THEN {<<TRUE, "none">>}
    ELSE IF rc.vs[c].kind = "vs"
    THEN {<<TRUE, stage>> : stage \in StagesOf({"none", "query"}, TRUE)}
    ELSE VectorstoreOutcomes(c, RetrieveStages)

Next ==
    \/ ops < MaxOps /\ \E c \in Courses : \E b \in BatchesOf(c) : \E o \in SaveOutcomes(c, b) :
            save_upload_and_index(c, b, o[1], o[2], o[3])
    \/ ops < MaxOps /\ \E c \in Courses : \E s \in SearchesOf(c) : \E o \in RetrieveOutcomes(c, s[1], s[2]) :
            _get_relevant_documents(c, s[1], s[2], o[1], o[2])
    \/ ops < MaxOps /\ \E c \in Courses : \E o \in VectorstoreOutcomes(c, RetrieveStages \ {"query"}) :
            get_retriever(c, o[1], o[2])
    \/ ops < MaxOps /\ \E c \in Courses, cloudOk \in Heartbeats :
         \E getOk \in CallOutcomes(cloudOk) :
            check_course_status(c, cloudOk, getOk)
    \/ ops < MaxOps /\ \E c \in Courses \cup {Blank}, cloudOk \in Heartbeats :
         \E delOk \in CallOutcomes(cloudOk) :
            delete_course(c, cloudOk, delOk)
    \/ Tick

Spec == Init /\ [][Next]_vars

(***************************** the naming functions ************************)
\* A text is slugified by both implementations, and the slug once more.
Slugify ==
    /\ named.op = "none"
    /\ named' = [NoNamed EXCEPT !.op = "slug", !.rag = _slugify(given),
                                !.again = _slugify(_slugify(given)),
                                !.utils = slugify(given)]
    /\ UNCHANGED <<pipeline, threads, smart, given>>

\* The collection name of a text is computed, twice.
CollectionName ==
    /\ named.op = "none"
    /\ named' = [NoNamed EXCEPT !.op = "name", !.name = _get_collection_name(given),
                                !.again = _get_collection_name(given)]
    /\ UNCHANGED <<pipeline, threads, smart, given>>

NameInit ==
    /\ useCloud = TRUE
    /\ store = [be \in Backends |-> [n \in CollectionNames |-> NoCollection]]
    /\ files = RootOnly
    /\ rc = EmptyResourceCache
    /\ dc = EmptyDataCache
    /\ ops = 0
    /\ last = NoCall
    /\ made = NoneMade
    /\ given \in Texts
    /\ named = NoNamed
    /\ NoThreads
    /\ smart = NoSmart

\* The collection of a text is listed, and the listed name is looked up.
ListCourse ==
    /\ named.op = "none"
    /\ StartsWith(_get_collection_name(given), CoursePrefix)
    /\ named' = [NoNamed EXCEPT !.op = "list", !.name = _get_collection_name(given),
                    !.rag = ListedName(_get_collection_name(given)),
                    !.again = _get_collection_name(ListedName(_get_collection_name(given)))]
    /\ UNCHANGED <<pipeline, threads, smart, given>>

NameNext == Slugify \/ CollectionName \/ ListCourse

NameSpec == NameInit /\ [][NameNext]_vars

(***************************** _split **************************************)
\* The bounds of the texts and of the chunk sizes the splitter is run on.
MaxText == 4
MaxSize == 3

\* RecursiveCharacterTextSplitter: the default separators, tried in order.
Separators == << <<"\n", "\n">>, <<"\n">>, <<" ">>, <<>> >>

\* The texts split: every text of up to MaxText characters of a letter, a
\* blank and a newline.
SplitChars == {"a", " ", "\n"}
SplitTexts == UNION {[1..n -> SplitChars] : n \in 0..MaxText}

\* CHUNK_SIZE and CHUNK_OVERLAP as the environment may set them, the overlap
\* smaller than the size.
SplitSizes == {sz \in (2..MaxSize) \X (0..MaxSize) : sz[2] < sz[1]}

\* "".join(parts)
RECURSIVE Concat(_)
Concat(parts) == IF parts = <<>> THEN <<>> ELSE Head(parts) \o Concat(Tail(parts))

\* re.search(re.escape(sep), text)
OccursAt(text, sep, i) ==
    /\ i + Len(sep) - 1 <= Len(text)
    /\ SubSeq(text, i, i + Len(sep) - 1) = sep
Occurs(text, sep) == \E i \in 1..Len(text) : OccursAt(text, sep, i)

\* re.split(f"({sep})", text) with the separator kept in front of the piece
\* that follows it: the text is scanned from i, cur is the piece being read
\* and acc the pieces read.
RECURSIVE SplitKeeping(_, _, _, _, _)
SplitKeeping(text, sep, i, cur, acc) ==
    IF i > Len(text) THEN Append(acc, cur)
    ELSE IF OccursAt(text, sep, i)
    THEN SplitKeeping(text, sep, i + Len(sep), sep, Append(acc, cur))
    ELSE SplitKeeping(text, sep, i + 1, Append(cur, text[i]), acc)

\* _split_text_with_regex(text, separator, keep_separator=True): the pieces
\* that are not empty; the empty separator cuts between all characters.
_split_text_with_regex(text, sep) ==
    IF sep = <<>>
    THEN [i \in 1..Len(text) |-> <<text[i]>>]
    ELSE SelectSeq(SplitKeeping(text, sep, 1, <<>>, <<>>), LAMBDA piece : piece # <<>>)

\* _join_docs with the kept separator: the pieces are concatenated and the
\* whitespace at both ends stripped; an empty result gives no chunk.
_join_docs(parts) ==
    IF StripSet(Concat(parts), Whitespace) = <<>> THEN <<>>
    ELSE <<StripSet(Concat(parts), Whitespace)>>

\* _merge_splits, the while loop: pieces are dropped from the front of the
\* current chunk while it is longer than the overlap, or while the next piece
\* (of length n) does not fit.
RECURSIVE PopFront(_, _, _, _, _)
PopFront(current_doc, total, n, chunk_size, chunk_overlap) ==
    IF total > chunk_overlap \/ (total + n > chunk_size /\ total > 0)
    THEN PopFront(Tail(current_doc), total - Len(Head(current_doc)), n,
                  chunk_size, chunk_overlap)
    ELSE [doc |-> current_doc, total |-> total]

\* _merge_splits(splits, ""): the pieces are gathered into chunks of at most
\* chunk_size; a chunk that is full is emitted and its tail of at most
\* chunk_overlap, made of whole pieces, begins the next chunk.
RECURSIVE MergeFrom(_, _, _, _, _, _, _)
MergeFrom(splits, i, current_doc, total, merged, chunk_size, chunk_overlap) ==
    IF i > Len(splits) THEN merged \o _join_docs(current_doc)
    ELSE IF total + Len(splits[i]) > chunk_size /\ current_doc # <<>>
    THEN LET kept == PopFront(current_doc, total, Len(splits[i]), chunk_size, chunk_overlap)
         IN  MergeFrom(splits, i + 1, Append(kept.doc, splits[i]),
                       kept.total + Len(splits[i]),
                       merged \o _join_docs(current_doc), chunk_size, chunk_overlap)
    ELSE MergeFrom(splits, i + 1, Append(current_doc, splits[i]),
                   total + Len(splits[i]), merged, chunk_size, chunk_overlap)

_merge_splits(splits, chunk_size, chunk_overlap) ==
    MergeFrom(splits, 1, <<>>, 0, <<>>, chunk_size, chunk_overlap)

\* _split_text, the choice of the separator: the index of the first separator
\* that is empty or occurs in the text, else of the last one.
RECURSIVE SeparatorIndex(_, _, _)
SeparatorIndex(text, separators, i) ==
    IF i >= Len(separators) THEN Len(separators)
    ELSE IF separators[i] = <<>> \/ Occurs(text, separators[i]) THEN i
    ELSE SeparatorIndex(text, separators, i + 1)

\* _split_text(text, separators): the text is cut at the separator chosen;
\* the pieces shorter than chunk_size are merged, a longer piece is cut at the
\* separators left, or kept whole when none is left.
RECURSIVE _split_text(_, _, _, _)
RECURSIVE SplitLoop(_, _, _, _, _, _, _)
SplitLoop(splits, i, good, final_chunks, new_separators, chunk_size, chunk_overlap) ==
    IF i > Len(splits)
    THEN final_chunks \o _merge_splits(good, chunk_size, chunk_overlap)
    ELSE IF Len(splits[i]) < chunk_size
    THEN SplitLoop(splits, i + 1, Append(good, splits[i]), final_chunks,
                   new_separators, chunk_size, chunk_overlap)
    ELSE SplitLoop(splits, i + 1, <<>>,
                   final_chunks \o _merge_splits(good, chunk_size, chunk_overlap)
                       \o (IF new_separators = <<>> THEN <<splits[i]>>
                           ELSE _split_text(splits[i], new_separators,
                                            chunk_size, chunk_overlap)),
                   new_separators, chunk_size, chunk_overlap)

_split_text(text, separators, chunk_size, chunk_overlap) ==
    LET at == SeparatorIndex(text, separators, 1)
        separator == separators[at]
        new_separators == IF separator # <<>> /\ Occurs(text, separator)
                          THEN SubSeq(separators, at + 1, Len(separators))
                          ELSE <<>>
    IN  SplitLoop(_split_text_with_regex(text, separator), 1, <<>>, <<>>,
                  new_separators, chunk_size, chunk_overlap)

\* _split(text) with CHUNK_SIZE = chunk_size and CHUNK_OVERLAP = chunk_overlap.
_split(text, chunk_size, chunk_overlap) ==
    _split_text(text, Separators, chunk_size, chunk_overlap)

\* A text is split.
Split ==
    /\ named.op = "none"
    /\ named' = [NoNamed EXCEPT !.op = "split",
                    !.chunks = _split(given.text, given.size, given.overlap)]
    /\ UNCHANGED <<pipeline, threads, smart, given>>

SplitInit ==
    /\ useCloud = TRUE
    /\ store = [be \in Backends |-> [n \in CollectionNames |-> NoCollection]]
    /\ files = RootOnly
    /\ rc = EmptyResourceCache
    /\ dc = EmptyDataCache
    /\ ops = 0
    /\ last = NoCall
    /\ made = NoneMade
    /\ given \in {[text |-> t, size |-> sz[1], overlap |-> sz[2]] :
                    t \in SplitTexts, sz \in SplitSizes}
    /\ named = NoNamed
    /\ NoThreads
    /\ smart = NoSmart

SplitNext == Split

SplitSpec == SplitInit /\ [][SplitNext]_vars

(***************************** SmartCache **********************************)
\* The bounds of the caches run: the largest max_size and the last tick of
\* the clock.
MaxSmartSize == 2
MaxClock == 2

\* The default_ttl of the caches run, and the keys, values and ttl arguments
\* of the calls: ttl is <<>> for None, else <<seconds>>.
SmartTtl == 1
SmartKeys == {"k1", "k2", "k3"}
SmartValues == {"v1", "v2"}
\* The values a key is set to: one key gets either value, the others one.
SmartValuesOf(key) == IF key = "k1" THEN SmartValues ELSE {"v1"}
SmartTtls == {<<>>, <<0>>}

\* dict: key in d, d[key], d[key] = val, d.pop(key, None), d.keys()
Has(d, key) == \E i \in 1..Len(d) : d[i].k = key
At(d, key) == d[CHOOSE i \in 1..Len(d) : d[i].k = key].v
Put(d, key, val) ==
    IF Has(d, key)
    THEN [i \in 1..Len(d) |-> IF d[i].k = key THEN [k |-> key, v |-> val] ELSE d[i]]
    ELSE Append(d, [k |-> key, v |-> val])
Pop(d, key) == SelectSeq(d, LAMBDA e : e.k # key)
KeysOf(d) == {d[i].k : i \in 1..Len(d)}

\* An expiry test that passes over the ttl argument.
IsExpiredByDefault(c, key, ttl) ==
    ~Has(c.creation_times, key) \/ c.now - At(c.creation_times, key) > c.default_ttl
\* SmartCache._is_expired
_is_expired(c, key, ttl) ==
    IF ~Has(c.creation_times, key) THEN TRUE
    ELSE LET age == c.now - At(c.creation_times, key)
             max_age == IF ttl # <<>> THEN ttl[1] ELSE c.default_ttl
         IN  age > max_age

\* SmartCache._remove_key
_remove_key(c, key) ==
    [c EXCEPT !.cache = Pop(c.cache, key),
              !.access_times = Pop(c.access_times, key),
              !.creation_times = Pop(c.creation_times, key)]

\* min(self.access_times.keys(), key=...): the first key of the least time
LruKey(times) ==
    times[CHOOSE i \in 1..Len(times) :
            \A j \in 1..Len(times) :
                times[i].v < times[j].v \/ (times[i].v = times[j].v /\ i <= j)].k

\* SmartCache._evict_lru
_evict_lru(c) ==
    IF c.access_times = <<>> THEN c
    ELSE _remove_key(c, LruKey(c.access_times))

\* A size test that lets the cache grow one entry beyond max_size.
FullAbove(c) == Len(c.cache) > c.max_size
\* SmartCache.set, the loop condition: len(self.cache) >= self.max_size
Full(c) == Len(c.cache) >= c.max_size

\* time.time() moves on.
SmartTick ==
    /\ smart.now < MaxClock
    /\ smart' = [smart EXCEPT !.now = @ + 1]
    /\ UNCHANGED <<pipeline, naming, threads>>

\* SmartCache.get(key, ttl)
SmartGet(key, ttl) ==
    /\ smart.pc = "idle"
    /\ \E c \in {[smart EXCEPT !.op = "get", !.key = key, !.ttl = ttl, !.value = "",
                               !.flip = 1 - @]} :
          smart' = IF Has(c.cache, key) /\ ~_is_expired(c, key, ttl)
                   THEN [c EXCEPT !.access_times = Put(c.access_times, key, c.now),
                                  !.ret = At(c.cache, key), !.note = "hit"]
                   ELSE IF Has(c.cache, key)
                   THEN [_remove_key(c, key) EXCEPT !.ret = "None", !.note = "expired"]
                   ELSE [c EXCEPT !.ret = "None", !.note = "miss"]
    /\ UNCHANGED <<pipeline, naming, threads>>

\* SmartCache.set(key, value) is called.
SmartSet(key, value) ==
    /\ smart.pc = "idle"
    /\ smart' = [smart EXCEPT !.pc = "set", !.op = "set", !.key = key, !.value = value,
                              !.ttl = <<>>, !.ret = "None", !.before = smart.cache,
                              !.note = "", !.spin = 0, !.flip = 1 - @]
    /\ UNCHANGED <<pipeline, naming, threads>>

\* SmartCache.set, a pass of the loop: while the cache is full, _evict_lru()
SmartEvict ==
    /\ smart.pc = "set"
    /\ Full(smart)
    /\ smart' = [_evict_lru(smart) EXCEPT !.spin = 1 - @,
                    !.note = IF smart.access_times # <<>> THEN "evicted" ELSE @]
    /\ UNCHANGED <<pipeline, naming, threads>>

\* SmartCache.set after the loop: the entry is written to the three tables.
SmartWrite ==
    /\ smart.pc = "set"
    /\ ~Full(smart)
    /\ smart' = [smart EXCEPT !.cache = Put(@, smart.key, smart.value),
                              !.access_times = Put(@, smart.key, smart.now),
                              !.creation_times = Put(@, smart.key, smart.now),
                              !.pc = "idle", !.spin = 0, !.value = "",
                              !.before = <<>>]
    /\ UNCHANGED <<pipeline, naming, threads>>

\* SmartCache.clear()
SmartClear ==
    /\ smart.pc = "idle"
    /\ smart' = [smart EXCEPT !.cache = <<>>, !.access_times = <<>>,
                              !.creation_times = <<>>,
                              !.op = "clear", !.key = "", !.value = "", !.ttl = <<>>,
                              !.ret = "None", !.note = "", !.flip = 1 - @]
    /\ UNCHANGED <<pipeline, naming, threads>>

SmartInit ==
    /\ useCloud = TRUE
    /\ store = [be \in Backends |-> [n \in CollectionNames |-> NoCollection]]
    /\ files = RootOnly
    /\ rc = EmptyResourceCache
    /\ dc = EmptyDataCache
    /\ ops = 0
    /\ last = NoCall
    /\ made = NoneMade
    /\ given = <<>>
    /\ named = NoNamed
    /\ NoThreads
    /\ smart \in {SmartCache(max_size, SmartTtl) : max_size \in 0..MaxSmartSize}

SmartNext ==
    \/ SmartTick
    \/ \E key \in SmartKeys, ttl \in SmartTtls : SmartGet(key, ttl)
    \/ \E key \in SmartKeys : \E value \in SmartValuesOf(key) : SmartSet(key, value)
    \/ SmartEvict
    \/ SmartWrite
    \/ SmartClear

SmartSpec == SmartInit /\ [][SmartNext]_vars

\* The same, where a set call that can take a step takes it.
SmartFairSpec == SmartSpec /\ WF_vars(SmartEvict) /\ WF_vars(SmartWrite)

(***************************** concurrent sessions ************************)
\* Two sessions of one process run handlers on the same course at the same
\* time, each in its own thread.  A handler advances by one call on shared
\* state at a time: a call on the client, a lookup in or a clear of a
\* Streamlit cache.  The connection does not fail here.
Writer == "writer"
Reader == "reader"
Shared == Physics
SharedName == NameOf[Shared]
\* What is never touched by a step of a thread.
apart == <<useCloud, last, naming, smart>>

\* The backend of the client _get_chromadb_client makes when the connection
\* is up.
Serving == IF useCloud THEN "cloud" ELSE "local"

\* client.delete_collection took effect: the handles and wrappers the threads
\* hold on that collection no longer reach one.
Dropped(l, existed) ==
    [t \in Threads |-> IF existed THEN [l[t] EXCEPT !.live = FALSE] ELSE l[t]]

\* Whether st.cache_resource holds a value for the function.
Cached(fn) == IF fn = "client" THEN rc.client # "none" ELSE rc.emb

\* A thread calls a function memoised by st.cache_resource and goes on at
\* step back afterwards, with the locals l.
CallCached(t, fn, back, l) ==
    /\ pc' = [pc EXCEPT ![t] = "lookup"]
    /\ loc' = [loc EXCEPT ![t] = [l EXCEPT !.fn = fn, !.back = back]]

\* A thread's handler returns, with the locals l.
Return(t, l) ==
    /\ pc' = [pc EXCEPT ![t] = "idle"]
    /\ loc' = [loc EXCEPT ![t] = l]

\* st.cache_resource, the lookup before the lock: a cached value is returned,
\* else the thread goes for the compute lock of the function.
Lookup(t) ==
    /\ pc[t] = "lookup"
    /\ IF Cached(loc[t].fn)
       THEN /\ pc' = [pc EXCEPT ![t] = loc[t].back]
            /\ loc' = [loc EXCEPT ![t][loc[t].fn] = made[loc[t].fn]]
       ELSE /\ pc' = [pc EXCEPT ![t] = "lock"]
            /\ loc' = loc
    /\ UNCHANGED <<apart, store, files, rc, dc, ops, made, lock, clears>>

\* A second lookup that trusts the first.
RecheckSkipped(cached) == FALSE
\* st.cache_resource, under the compute lock: the cache is read again, since
\* another thread may have computed the value meanwhile.
Recheck(cached) == cached

\* st.cache_resource, taking the compute lock once it is free: a value found
\* now is returned and the lock released, else the thread computes.
Acquire(t) ==
    /\ pc[t] = "lock"
    /\ lock[loc[t].fn] = "none"
    /\ IF Recheck(Cached(loc[t].fn))
       THEN /\ pc' = [pc EXCEPT ![t] = loc[t].back]
            /\ loc' = [loc EXCEPT ![t][loc[t].fn] = made[loc[t].fn], ![t].raced = TRUE]
            /\ lock' = lock
       ELSE /\ pc' = [pc EXCEPT ![t] = "build"]
            /\ loc' = loc
            /\ lock' = [lock EXCEPT ![loc[t].fn] = t]
    /\ UNCHANGED <<apart, store, files, rc, dc, ops, made, clears>>

\* The body of _get_chromadb_client or _get_embeddings runs under the lock:
\* the instance is constructed, cached and returned, and the lock released.
Build(t) ==
    /\ pc[t] = "build"
    /\ made' = [made EXCEPT ![loc[t].fn] = @ + 1]
    /\ rc' = IF loc[t].fn = "client"
             THEN [rc EXCEPT !.client = Serving]
             ELSE [rc EXCEPT !.emb = TRUE]
    /\ loc' = [loc EXCEPT ![t][loc[t].fn] = made[loc[t].fn] + 1]
    /\ lock' = [lock EXCEPT ![loc[t].fn] = "none"]
    /\ pc' = [pc EXCEPT ![t] = loc[t].back]
    /\ UNCHANGED <<apart, store, files, dc, ops, clears>>

\* save_upload_and_index up to _get_chromadb_client(): the directory, the
\* file loop, the early return.
save_begin(uploaded_files) ==
    /\ pc[Writer] = "idle"
    /\ ops < MaxOps
    /\ ops' = ops + 1
    /\ files' = _ensure_dir(files, SlugOf[Shared])
    /\ \E ext \in {Extracted[Shared][uploaded_files]} :
          IF ext.raised \/ NoTexts(ext.texts)
          THEN Return(Writer, [NoLocal EXCEPT !.op = "save"])
          ELSE CallCached(Writer, "client", "save_delete",
                          [NoLocal EXCEPT !.op = "save", !.texts = ext.texts])
    /\ UNCHANGED <<apart, store, rc, dc, made, lock, clears>>

\* client.delete_collection in save_upload_and_index, then _get_embeddings().
save_delete ==
    /\ pc[Writer] = "save_delete"
    /\ \E old \in {store[Serving][SharedName]} :
          /\ store' = [store EXCEPT ![Serving][SharedName] = NoCollection]
          /\ rc' = IF old.exists THEN MarkDeleted(rc, Serving, SharedName) ELSE rc
          /\ CallCached(Writer, "emb", "save_create",
                        [Dropped(loc, old.exists)[Writer] EXCEPT
                            !.old = old, !.replacing = TRUE])
    /\ UNCHANGED <<apart, files, dc, ops, made, lock, clears>>

\* Chroma.from_texts, first half: the wrapper gets or creates the collection.
save_create ==
    /\ pc[Writer] = "save_create"
    /\ store' = [store EXCEPT ![Serving][SharedName].exists = TRUE]
    /\ pc' = [pc EXCEPT ![Writer] = "save_add"]
    /\ UNCHANGED <<apart, files, rc, dc, ops, made, loc, lock, clears>>

\* Chroma.from_texts, second half: the texts are added.
save_add ==
    /\ pc[Writer] = "save_add"
    /\ Len(store[Serving][SharedName].docs) + Len(loc[Writer].texts) <= MaxDocs
    /\ store' = [store EXCEPT ![Serving][SharedName] =
                    [exists |-> TRUE, docs |-> @.docs \o loc[Writer].texts]]
    /\ pc' = [pc EXCEPT ![Writer] = "save_clear"]
    /\ loc' = [loc EXCEPT ![Writer].replacing = FALSE]
    /\ UNCHANGED <<apart, files, rc, dc, ops, made, lock, clears>>

\* _clear_course_cache at the end of save_upload_and_index, and the return.
save_clear ==
    /\ pc[Writer] = "save_clear"
    /\ _clear_course_cache(Shared)
    /\ clears' = clears + 1
    /\ Return(Writer, loc[Writer])
    /\ UNCHANGED <<apart, store, files, ops, made, lock>>

\* delete_course up to _get_chromadb_client().
delete_begin ==
    /\ pc[Writer] = "idle"
    /\ ops < MaxOps
    /\ ops' = ops + 1
    /\ CallCached(Writer, "client", "delete_collection", [NoLocal EXCEPT !.op = "delete"])
    /\ UNCHANGED <<apart, store, files, rc, dc, made, lock, clears>>

\* client.delete_collection in delete_course.
delete_collection ==
    /\ pc[Writer] = "delete_collection"
    /\ \E old \in {store[Serving][SharedName]} :
          /\ store' = [store EXCEPT ![Serving][SharedName] = NoCollection]
          /\ rc' = IF old.exists THEN MarkDeleted(rc, Serving, SharedName) ELSE rc
          /\ loc' = Dropped(loc, old.exists)
    /\ pc' = [pc EXCEPT ![Writer] = "delete_files"]
    /\ UNCHANGED <<apart, files, dc, ops, made, lock, clears>>

\* The rest of delete_course: the directory, the caches, the return.
delete_files ==
    /\ pc[Writer] = "delete_files"
    /\ files' = IF files[SlugOf[Shared]].exists
                THEN RemoveTree(files, SlugOf[Shared])
                ELSE files
    /\ _clear_course_cache(Shared)
    /\ clears' = clears + 1
    /\ Return(Writer, loc[Writer])
    /\ UNCHANGED <<apart, store, ops, made, lock>>

\* The status check_course_status starts from.
Defaults(course_name) ==
    [has_vectorstore |-> FALSE, document_count |-> 0, is_ready |-> FALSE,
     using_cloud |-> useCloud, error |-> FALSE,
     collection_name |-> NameOf[course_name]]

\* check_course_status up to _get_chromadb_client().
status_begin ==
    /\ pc[Reader] = "idle"
    /\ ops < MaxOps
    /\ ops' = ops + 1
    /\ CallCached(Reader, "client", "status_get", [NoLocal EXCEPT !.op = "status"])
    /\ UNCHANGED <<apart, store, files, rc, dc, made, lock, clears>>

\* client.get_collection in check_course_status: a missing collection raises,
\* and the defaults are returned.
status_get ==
    /\ pc[Reader] = "status_get"
    /\ IF store[Serving][SharedName].exists
       THEN /\ pc' = [pc EXCEPT ![Reader] = "status_count"]
            /\ loc' = [loc EXCEPT ![Reader].live = TRUE]
       ELSE Return(Reader, [loc[Reader] EXCEPT !.status = Defaults(Shared)])
    /\ UNCHANGED <<apart, store, files, rc, dc, ops, made, lock, clears>>

\* collection.count() and the return of check_course_status: a collection
\* deleted since get_collection raises, and the defaults are returned.
status_count ==
    /\ pc[Reader] = "status_count"
    /\ Return(Reader, [loc[Reader] EXCEPT !.status =
            IF loc[Reader].live THEN StatusWith(Serving, Shared, TRUE)
            ELSE Defaults(Shared)])
    /\ UNCHANGED <<apart, store, files, rc, dc, ops, made, lock, clears>>

\* st.cache_data stores the result of a body that returned.
Stored(key, docs) == [dc EXCEPT ![key] = [hit |-> TRUE, val |-> docs, age |-> 0]]

\* _get_relevant_documents up to _get_chromadb_client(): the result cached by
\* st.cache_data, else the vector store cached by st.cache_resource, else the
\* body of _get_vectorstore.
retrieve_begin(q, k) ==
    /\ pc[Reader] = "idle"
    /\ ops < MaxOps
    /\ ops' = ops + 1
    /\ \E l \in {[NoLocal EXCEPT !.op = "retrieve", !.q = q, !.k = k]} :
       \E entry \in {rc.vs[Shared]} :
          IF Fresh(dc[<<Shared, q, k>>])
          THEN /\ Return(Reader, [l EXCEPT !.docs = dc[<<Shared, q, k>>].val])
               /\ dc' = dc
          ELSE IF entry.kind = "none"
          THEN /\ Return(Reader, l)
               /\ dc' = Stored(<<Shared, q, k>>, <<>>)
          ELSE IF entry.kind = "vs"
          THEN /\ pc' = [pc EXCEPT ![Reader] = "similarity_search"]
               /\ loc' = [loc EXCEPT ![Reader] = [l EXCEPT !.live = entry.live]]
               /\ dc' = dc
          ELSE /\ CallCached(Reader, "client", "get_collection", l)
               /\ dc' = dc
    /\ UNCHANGED <<apart, store, files, rc, made, lock, clears>>

\* client.get_collection in _get_vectorstore: a missing collection raises and
\* None is returned and cached; else _get_embeddings() is called.
get_collection ==
    /\ pc[Reader] = "get_collection"
    /\ IF store[Serving][SharedName].exists
       THEN /\ CallCached(Reader, "emb", "wrap", loc[Reader])
            /\ UNCHANGED <<rc, dc>>
       ELSE /\ Return(Reader, loc[Reader])
            /\ rc' = [rc EXCEPT !.vs[Shared] = NoneEntry]
            /\ dc' = Stored(<<Shared, loc[Reader].q, loc[Reader].k>>, <<>>)
    /\ UNCHANGED <<apart, store, files, ops, made, lock, clears>>

\* Chroma(client, collection_name, embedding_function) in _get_vectorstore:
\* the wrapper gets or creates the collection of that name.
wrap ==
    /\ pc[Reader] = "wrap"
    /\ store' = [store EXCEPT ![Serving][SharedName].exists = TRUE]
    /\ pc' = [pc EXCEPT ![Reader] = "probe"]
    /\ loc' = [loc EXCEPT ![Reader].live = TRUE]
    /\ UNCHANGED <<apart, files, rc, dc, ops, made, lock, clears>>

\* vectorstore.similarity_search("test", k=1) in _get_vectorstore: the wrapper
\* is returned and cached when the search finds a passage, None when it finds
\* none or raises.
probe ==
    /\ pc[Reader] = "probe"
    /\ IF loc[Reader].live /\ Len(TopK(store[Serving][SharedName].docs, "test", 1)) > 0
       THEN /\ rc' = [rc EXCEPT !.vs[Shared] = Wrapper(Serving, SharedName)]
            /\ pc' = [pc EXCEPT ![Reader] = "similarity_search"]
            /\ UNCHANGED <<loc, dc>>
       ELSE /\ rc' = [rc EXCEPT !.vs[Shared] = NoneEntry]
            /\ dc' = Stored(<<Shared, loc[Reader].q, loc[Reader].k>>, <<>>)
            /\ Return(Reader, loc[Reader])
    /\ UNCHANGED <<apart, store, files, ops, made, lock, clears>>

\* vectorstore.similarity_search(query, k) in _get_relevant_documents: an
\* exception gives the empty list.
similarity_search ==
    /\ pc[Reader] = "similarity_search"
    /\ \E docs \in {IF loc[Reader].live
                    THEN TopK(store[Serving][SharedName].docs, loc[Reader].q, loc[Reader].k)
                    ELSE <<>>} :
          /\ pc' = [pc EXCEPT ![Reader] = "store_result"]
          /\ loc' = [loc EXCEPT ![Reader].docs = docs]
    /\ UNCHANGED <<apart, store, files, rc, dc, ops, made, lock, clears>>

\* st.cache_data once the body of _get_relevant_documents has returned: the
\* result is stored under the key and returned.
store_result ==
    /\ pc[Reader] = "store_result"
    /\ dc' = Stored(<<Shared, loc[Reader].q, loc[Reader].k>>, loc[Reader].docs)
    /\ Return(Reader, loc[Reader])
    /\ UNCHANGED <<apart, store, files, rc, ops, made, lock, clears>>

\* The batches the writer uploads.
SharedBatches == {<<FileA>>, <<FileB>>}

ConcInit ==
    /\ useCloud = FALSE
    /\ store = [be \in Backends |-> [n \in CollectionNames |-> NoCollection]]
    /\ files = RootOnly
    /\ rc = EmptyResourceCache
    /\ dc = EmptyDataCache
    /\ ops = 0
    /\ last = NoCall
    /\ made = NoneMade
    /\ given = <<>>
    /\ named = NoNamed
    /\ NoThreads
    /\ smart = NoSmart

ConcNext ==
    \/ \E t \in Threads : Lookup(t)
    \/ \E t \in Threads : Acquire(t)
    \/ \E t \in Threads : Build(t)
    \/ \E b \in SharedBatches : save_begin(b)
    \/ save_delete
    \/ save_create
    \/ save_add
    \/ save_clear
    \/ delete_begin
    \/ delete_collection
    \/ delete_files
    \/ status_begin
    \/ status_get
    \/ status_count
    \/ \E s \in SearchesOf(Shared) : retrieve_begin(s[1], s[2])
    \/ get_collection
    \/ wrap
    \/ probe
    \/ similarity_search
    \/ store_result

ConcSpec == ConcInit /\ [][ConcNext]_vars

(***************************** what a call would return ********************)
\* The passages _get_relevant_documents(c, q, k) returns when it is called in
\* the current state, for the outcomes the environment can choose.
RetrievedNow(c, q, k) ==
    {Retrieve(c, q, k, cloudOk, stage).docs :
        cloudOk \in Heartbeats, stage \in RetrieveStages}
\* The same when no call on the backend and no model load fails.
RetrievedNowOk(c, q, k) == Retrieve(c, q, k, TRUE, "none").docs
\* The status check_course_status(c) returns when it is called in the current
\* state and the backend answers.
StatusNowOk(c) == StatusWith(ClientFor(rc, TRUE), c, TRUE)
\* The collection of course c in the backend a call made in the current state
\* uses when the backend answers.
CollectionNow(c) == store[ClientFor(rc, TRUE)][NameOf[c]]

Sources(docs) == {docs[i].source : i \in 1..Len(docs)}
Names(batch) == {batch[i].name : i \in 1..Len(batch)}
NonBlank(chunk) == StripSet(chunk, Whitespace) # <<>>
Indexed(coll) == coll.exists /\ Len(coll.docs) > 0

(***************************** properties **********************************)
\* C1: after save_upload_and_index(C, batch) has returned a count n > 0, the
\* collection of C holds exactly the n non-blank chunks of that batch and
\* nothing else, and check_course_status(C) reports document_count = n and
\* is_ready.
C1_SaveReplacesExactly ==
    (last.op = "save" /\ last.ret > 0) =>
        LET coll == store[last.be][NameOf[last.course]]
            st == StatusWith(last.be, last.course, TRUE)
        IN  /\ coll.exists
            /\ coll.docs = last.docs
            /\ Len(coll.docs) = last.ret
            /\ \A i \in 1..Len(coll.docs) : NonBlank(coll.docs[i].text)
            /\ st.document_count = last.ret
            /\ st.is_ready

\* C2: after save_upload_and_index(C, batch2) on an already indexed course C
\* has returned, whatever it returned, _get_relevant_documents(C, q, k)
\* returns no passage whose source is a file absent from batch2.
C2_NoSourceOutsideBatch ==
    (last.op = "save" /\ ~last.raised /\ Indexed(last.had)) =>
        \A q \in Queries, k \in Ks :
            \A docs \in RetrievedNow(last.course, q, k) :
                Sources(docs) \subseteq Names(last.batch)

\* C3: after save_upload_and_index(C, ...) or delete_course(C) has run, the
\* next _get_relevant_documents(C, q, k) is computed from the current content
\* of the collection of C, not served from an entry cached before the call.
C3_CacheInvalidated ==
    (last.op \in {"save", "delete"} /\ ~last.raised) =>
        \A q \in Queries, k \in Ks :
            LET coll == CollectionNow(last.course)
            IN  RetrievedNowOk(last.course, q, k) =
                    IF coll.exists THEN TopK(coll.docs, q, k) ELSE <<>>

\* C4: _get_relevant_documents(C, q, k) never raises; it returns the empty
\* list for a course whose collection does not exist, and the empty list
\* when the collection lookup or the similarity search fails: for the call
\* made last, and for every call that can be made in the current state.
C4_RetrieveNeverRaises ==
    /\ (last.op = "retrieve") =>
          /\ ~last.raised
          /\ ~last.had.exists => last.docs = <<>>
          /\ last.fault => last.docs = <<>>
    /\ \A c \in Courses, q \in Queries, k \in Ks :
          \A cloudOk \in Heartbeats, stage \in RetrieveStages :
             LET out == Retrieve(c, q, k, cloudOk, stage)
                 be == IF out.be = "none" THEN ClientFor(rc, cloudOk) ELSE out.be
             IN  /\ ~out.raised
                 /\ ~store[be][NameOf[c]].exists => out.docs = <<>>
                 /\ out.fault => out.docs = <<>>

\* C5: after delete_course(C) has run on an indexed course C, the collection
\* of C and its directory of raw files do not exist, check_course_status(C)
\* reports is_ready false and document_count 0, and
\* _get_relevant_documents(C, q, k) returns the empty list.
C5_DeleteRemovesCourse ==
    (last.op = "delete" /\ Indexed(last.had)) =>
        /\ ~store[last.be][NameOf[last.course]].exists
        /\ ~files[SlugOf[last.course]].exists
        /\ ~StatusNowOk(last.course).is_ready
        /\ StatusNowOk(last.course).document_count = 0
        /\ \A q \in Queries, k \in Ks :
              \A docs \in RetrievedNow(last.course, q, k) : docs = <<>>

\* C6: delete_course is idempotent: on a course with no collection and no
\* persisted files it returns True, raises nothing and changes neither the
\* vector store nor the file storage; and a second delete_course(C) right
\* after a first leaves the state the first left.
C6_DeleteIdempotent ==
    (last.op = "delete") =>
        /\ (~last.had.exists /\ ~last.hadDir) =>
              last.done /\ ~last.raised /\ ~last.storeChanged /\ ~last.filesChanged
        /\ last.repeat =>
              last.done /\ ~last.raised /\ ~last.storeChanged /\ ~last.filesChanged

C8_StatusReportsOutage ==
    (last.op = "status" /\ last.fault) =>
        last.status.error /\ ~last.status.is_ready

\* C9: for a course whose collection does not exist, check_course_status,
\* _get_relevant_documents, get_retriever and delete_course yield the empty
\* or not-ready outcome and none of them raises.
C9_MissingIsNoError ==
    (last.op \in {"status", "retrieve", "retriever", "delete"} /\ ~last.had.exists) =>
        /\ ~last.raised
        /\ last.op = "status" =>
              ~last.status.is_ready /\ last.status.document_count = 0
        /\ last.op = "retrieve" => last.docs = <<>>
        /\ last.op = "delete" => last.done

\* A batch of which no file yields a non-blank chunk: every file has an
\* unsupported extension, or is read and has only blank chunks.
NoChunkBatch(batch) ==
    \A i \in 1..Len(batch) :
        LET f == batch[i]
            dest == Lower(f.name)
        IN  \/ ~EndsWith(dest, DotPdf) /\ ~EndsWith(dest, DotTxt)
            \/ /\ EndsWith(dest, DotTxt) \/ f.readable
               /\ \A j \in 1..Len(f.chunks) : ~NonBlank(f.chunks[j])

\* C10: when no file of the batch yields a non-blank chunk,
\* save_upload_and_index returns 0 and leaves the vector store unchanged: no
\* collection is deleted or created and the collection the course has keeps
\* its passages.
C10_EmptyBatchNoOp ==
    (last.op = "save" /\ NoChunkBatch(last.batch)) =>
        /\ ~last.raised
        /\ last.ret = 0
        /\ ~last.storeChanged
        /\ last.docs = <<>>

\* C10, witness: a batch of an unsupported and a blank file was uploaded to an
\* indexed course, whose collection still holds its passages.
C10_Witness ==
    /\ last.op = "save" /\ NoChunkBatch(last.batch) /\ Len(last.batch) = 2
    /\ Indexed(last.had)
    /\ \E be \in Backends : store[be][NameOf[last.course]] = last.had

\* A file save_upload_and_index reads: its name ends in .pdf or .txt,
\* whatever the case of the letters.
Supported(f) == EndsWith(Lower(f.name), DotPdf) \/ EndsWith(Lower(f.name), DotTxt)
\* The places of the non-blank chunks of the supported files of a batch.
SupportedChunks(batch) ==
    UNION {{<<i, j>> : j \in {j \in 1..Len(batch[i].chunks) : NonBlank(batch[i].chunks[j])}} :
              i \in {i \in 1..Len(batch) : Supported(batch[i])}}

\* C11: a file whose extension is neither .pdf nor .txt contributes no chunk
\* and does not abort the batch: when no file is rejected by its reader, the
\* texts save_upload_and_index extracts are exactly the non-blank chunks of
\* the supported files, those before and those after the unsupported file,
\* and when no call on the vector store fails they are all in the collection
\* and the value returned is their number.
C11_UnsupportedSkipped ==
    (last.op = "save" /\ ~last.raised) =>
        /\ \A n \in 1..Len(last.docs) :
              \E i \in 1..Len(last.batch) :
                 /\ Supported(last.batch[i])
                 /\ last.batch[i].name = last.docs[n].source
        /\ \A p \in SupportedChunks(last.batch) :
              \E n \in 1..Len(last.docs) :
                 last.docs[n] = [text |-> last.batch[p[1]].chunks[p[2]],
                                 source |-> last.batch[p[1]].name,
                                 course |-> last.course]
        /\ Len(last.docs) = Cardinality(SupportedChunks(last.batch))
        /\ (~last.fault /\ last.docs # <<>>) =>
              /\ last.ret = Len(last.docs)
              /\ \A n \in 1..Len(last.docs) :
                    \E m \in 1..Len(store[last.be][NameOf[last.course]].docs) :
                       store[last.be][NameOf[last.course]].docs[m] = last.docs[n]

\* C11, witness: a batch with an unsupported file between two supported ones
\* was indexed, and the chunks of both are counted and in the collection.
C11_Witness ==
    /\ last.op = "save" /\ ~last.raised /\ ~last.fault
    /\ \E i \in 2..(Len(last.batch) - 1) :
          /\ ~Supported(last.batch[i])
          /\ Supported(last.batch[i - 1]) /\ Supported(last.batch[i + 1])
    /\ last.ret = 2
    /\ Sources(store[last.be][NameOf[last.course]].docs) = {FileA.name, FileB.name}

\* C12: a file whose text extraction fails, such as a PDF its reader rejects,
\* is skipped: save_upload_and_index does not raise, and the chunks of the
\* other supported files of the batch are extracted.
C12_MalformedSkipped ==
    (last.op = "save") =>
        /\ ~last.raised
        /\ \A i \in 1..Len(last.batch) :
              (Supported(last.batch[i]) /\ last.batch[i].readable) =>
                 \A j \in 1..Len(last.batch[i].chunks) :
                    NonBlank(last.batch[i].chunks[j]) =>
                       \E n \in 1..Len(last.docs) :
                          /\ last.docs[n].text = last.batch[i].chunks[j]
                          /\ last.docs[n].source = last.batch[i].name

\* C13: when save_upload_and_index has deleted the collection of the course
\* and a later step of the replace fails, the call returns 0 and does not
\* raise, the collection holds no passage, and check_course_status reports
\* is_ready false, document_count 0 and no error; when it is the load of the
\* model or the creation of the collection that fails, the course has no
\* collection.
C13_FailedCreateLeavesNone ==
    (last.op = "save" /\ last.deleted /\ last.failed # "none") =>
        LET coll == store[last.be][NameOf[last.course]]
            st == StatusWith(last.be, last.course, TRUE)
        IN  /\ ~last.raised
            /\ last.ret = 0
            /\ last.failed \in {"emb", "create"} => ~coll.exists
            /\ coll.docs = <<>>
            /\ ~st.is_ready
            /\ st.document_count = 0
            /\ ~st.error

\* C13, witness: an indexed course was uploaded to again, its collection was
\* deleted, the creation of the new one failed, and the course has none.
C13_Witness ==
    /\ last.op = "save" /\ last.deleted /\ last.failed = "create"
    /\ Indexed(last.had) /\ last.ret = 0 /\ last.docs # <<>>
    /\ ~store[last.be][NameOf[last.course]].exists

\* C14: after save_upload_and_index has returned, with a count or after a
\* failure at any step, the collection of the course holds all the chunks of
\* the new batch, or what it held before the call, or it does not exist.
C14_NeverPartlyReplaced ==
    (last.op = "save" /\ ~last.raised /\ last.be # "none") =>
        LET coll == store[last.be][NameOf[last.course]]
        IN  \/ coll.exists /\ coll.docs = last.docs
            \/ coll = last.had
            \/ ~coll.exists

\* C15: in save_upload_and_index the embedding model is obtained before the
\* collection of the course is deleted: when the model does not load, the
\* collection the course had is still in place.
C15_EmbedBeforeDelete ==
    (last.op = "save" /\ last.failed = "emb") =>
        /\ ~last.deleted
        /\ ~last.storeChanged
        /\ store[last.be][NameOf[last.course]] = last.had

\* The characters of a slug: lowercase letters, digits and the hyphen.
IsNameChar(ch) == IsSlugChar(ch) \/ ch = "-"

\* C16: slugify is idempotent and total: the slug of a slug is the slug; a
\* slug has only characters of [a-z0-9-], no hyphen at either end and no two
\* hyphens next to each other; rag_chain._slugify and utils.slugify return
\* the same for every text.
C16_SlugifyIdempotent ==
    (named.op = "slug") =>
        /\ named.again = named.rag
        /\ named.utils = named.rag
        /\ \A i \in 1..Len(named.rag) : IsNameChar(named.rag[i])
        /\ named.rag # <<>> => named.rag[1] # "-" /\ named.rag[Len(named.rag)] # "-"
        /\ \A i \in 1..(Len(named.rag) - 1) :
              ~(named.rag[i] = "-" /\ named.rag[i + 1] = "-")

\* C16, witness: a text with a hyphen in front, an upper-case letter and
\* punctuation behind was slugified to the one letter.
C16_Witness ==
    /\ named.op = "slug"
    /\ given = <<"-", "A", "!">>
    /\ named.rag = <<"a">>

ScenarioCollection ==
    <<"c", "o", "u", "r", "s", "e", "-", "d", "a", "t", "a", "-", "s", "t",
      "r", "u", "c", "t", "u", "r", "e", "s", "-", "a", "l", "g", "o", "r",
      "i", "t", "h", "m", "s">>

\* C17: _get_collection_name returns "course-" followed by the slug of the
\* name, cut to its first 63 characters when longer: the same for the same
\* name, between 3 and 63 characters long, of lowercase letters, digits and
\* hyphens only; "Data Structures & Algorithms!!" gives
\* "course-data-structures-algorithms".
C17_CollectionName ==
    (named.op = "name") =>
        LET full == CoursePrefix \o _slugify(given)
        IN  /\ named.name = IF Len(full) > MaxNameLen THEN SubSeq(full, 1, MaxNameLen) ELSE full
            /\ named.again = named.name
            /\ Len(named.name) >= MinNameLen
            /\ Len(named.name) <= MaxNameLen
            /\ \A i \in 1..Len(named.name) : IsNameChar(named.name[i])
            /\ given = ScenarioName => named.name = ScenarioCollection

\* C17, witness: the name of a text whose slug is too long was cut to the
\* limit.
C17_Witness ==
    /\ named.op = "name"
    /\ Len(CoursePrefix \o _slugify(given)) > MaxNameLen
    /\ Len(named.name) = MaxNameLen

\* C18: collections map one to one to courses: two different course names
\* never resolve to the same collection, and a save_upload_and_index(A, ...)
\* or a delete_course(A) leaves the collection of every other course B as it
\* was in both backends: the same passages, the same document_count, the same
\* readiness.
C18_OtherCoursesUntouched ==
    [][/\ \A a, b \in AllCourses : a # b => NameOf[a] # NameOf[b]
       /\ last'.op \in {"save", "delete"} =>
            \A b \in AllCourses \ {last'.course} : \A be \in Backends :
                /\ store'[be][NameOf[b]] = store[be][NameOf[b]]
                /\ StatusWith(be, b, TRUE)' = StatusWith(be, b, TRUE)]_vars

\* C19: a course name whose slug is empty is rejected: delete_course does not
\* report success for it, and no call made with it creates, changes or
\* removes a collection or a directory.
C19_EmptySlugRejected ==
    (last.op # "none" /\ SlugOf[last.course] = <<>>) =>
        /\ ~last.storeChanged
        /\ ~last.filesChanged
        /\ last.op = "delete" => ~last.done

\* C20: over any sequence of index, retrieve, status and delete calls in one
\* process the embedding model and the vector-store client are each
\* constructed at most once.
C20_ConstructedOnce == made.client <= 1 /\ made.emb <= 1

\* The steps of the reader that read the collection.
ReadSteps == {"status_get", "status_count", "get_collection", "probe", "similarity_search"}

\* C21: while save_upload_and_index replaces the collection of a course, a
\* concurrent check_course_status or _get_relevant_documents of that course
\* that reads the collection finds the complete old content or the complete
\* new content: never a missing, an empty or a partly filled collection.
C21_ReaderSeesWholeCollection ==
    [][(pc[Reader] \in ReadSteps /\ pc'[Reader] # pc[Reader] /\ loc[Writer].replacing) =>
            store[Serving][SharedName] \in
                {loc[Writer].old, [exists |-> TRUE, docs |-> loc[Writer].texts]}]_vars

\* C22: concurrent first calls of _get_chromadb_client and of _get_embeddings
\* construct the instance once, and every caller gets that one instance (as
\* long as no cache clear has thrown the instance away).
C22_ConcurrentFirstCallsShare ==
    clears = 0 =>
        /\ \A r \in Resources : made[r] <= 1
        /\ \A t \in Threads, u \in Threads, r \in Resources :
                loc[t][r] # 0 /\ loc[u][r] # 0 => loc[t][r] = loc[u][r]

\* Two sessions missed the cache together, one constructed, and the other
\* found the instance under the lock: both hold the same one.
C22_Witness ==
    /\ clears = 0
    /\ \E t \in Threads, r \in Resources :
            /\ loc[t].raced
            /\ loc[t][r] = 1
            /\ \A u \in Threads : loc[u][r] = 1

\* C23: with the cloud selected, a call whose _get_chromadb_client could not
\* make the cloud client or got no heartbeat works with the local persistent
\* client: the call gets a client and no error comes of the failed connection.
C23_FallsBackToLocal ==
    last.fallback =>
        /\ useCloud
        /\ last.be = "local"
        /\ last.op = "status" => ~last.status.error

\* A status call fell back to the local client and answered from it.
C23_Witness ==
    /\ last.fallback
    /\ last.op = "status"
    /\ last.be = "local"
    /\ ~last.status.error

\* C24: the using_cloud a status reports is True exactly when the client the
\* call worked with is the cloud client, and False after the fallback to the
\* local client.
C24_UsingCloudIsClientInUse ==
    (last.op = "status" /\ ~last.status.error) =>
        (last.status.using_cloud <=> last.be = "cloud")

\* C25: _get_relevant_documents is cached per (course, query, k) for 300
\* seconds: a call whose key holds an entry younger than that returns the
\* stored result and searches nothing; a call whose key holds none, or whose
\* entry has expired, searches again; and a call touches no entry but the one
\* of its own key.
C25_CachedPerKey ==
    [][\A key \in DataKeys :
        (/\ ops' = ops + 1
         /\ last'.op = "retrieve"
         /\ <<last'.course, last'.q, last'.k>> = key) =>
            /\ (dc[key].hit /\ dc[key].age < TTL) =>
                    /\ last'.cached
                    /\ last'.docs = dc[key].val
                    /\ dc' = dc /\ rc' = rc /\ made' = made
            /\ ~(dc[key].hit /\ dc[key].age < TTL) =>
                    /\ ~last'.cached
                    /\ dc'[key] = [hit |-> TRUE, val |-> last'.docs, age |-> 0]
            /\ \A other \in DataKeys \ {key} : dc'[other] = dc[other]]_vars

\* A repeated query was answered from the cache with the passages stored there.
C25_Witness ==
    /\ last.op = "retrieve"
    /\ last.cached
    /\ last.docs # <<>>
    /\ dc[<<last.course, last.q, last.k>>].val = last.docs

\* C26: a lookup never creates a collection: under every interleaving of the
\* handlers a collection comes to exist only by the step of
\* save_upload_and_index that creates it.
C26_OnlySaveCreates ==
    [][\A be \in Backends, name \in CollectionNames :
        (~store[be][name].exists /\ store'[be][name].exists) =>
            (pc[Writer] = "save_create" /\ pc'[Writer] = "save_add")]_vars

\* The text the chunks stand for once the overlap is taken off the front of
\* every chunk but the first.
RECURSIVE Rejoined(_, _)
Rejoined(chunks, chunk_overlap) ==
    IF chunks = <<>> THEN <<>>
    ELSE Head(chunks) \o
         Concat([i \in 1..(Len(chunks) - 1) |->
                    SubSeq(chunks[i + 1], chunk_overlap + 1, Len(chunks[i + 1]))])

\* C27: for every text and every chunk size and overlap with overlap < size,
\* the chunks of _split give the text back when the overlaps are removed, and
\* two consecutive chunks share exactly overlap characters.
C27_ChunksRebuildText ==
    named.op = "split" =>
        /\ Rejoined(named.chunks, given.overlap) = given.text
        /\ \A i \in 1..(Len(named.chunks) - 1) :
            /\ Len(named.chunks[i]) >= given.overlap
            /\ Len(named.chunks[i + 1]) >= given.overlap
            /\ SubSeq(named.chunks[i], Len(named.chunks[i]) - given.overlap + 1,
                      Len(named.chunks[i]))
                 = SubSeq(named.chunks[i + 1], 1, given.overlap)

\* C28: a failed load of the embedding model is final: the call that follows
\* one whose _get_embeddings() failed does not try to load the model again,
\* neither with success nor to fail once more.
C28_FailedLoadNotRetried ==
    [][(last.failed = "emb" /\ ops' = ops + 1) =>
            (made'.emb = made.emb /\ last'.failed # "emb")]_vars

\* The file of a batch a passage names as its source holds the passage's text
\* among its chunks.
CutFrom(doc, batch) ==
    \E i \in 1..Len(batch) :
        /\ batch[i].name = doc.source
        /\ \E j \in 1..Len(batch[i].chunks) : batch[i].chunks[j] = doc.text

\* C29: every passage stored has a text that is not blank, the name of the
\* file it was cut from as its source and the course name passed as its
\* course; the lists of texts and of metadata a save builds have the same
\* length and order.
C29_PassagesWellFormed ==
    /\ \A be \in Backends, c \in Courses :
        \A i \in 1..Len(store[be][NameOf[c]].docs) :
            LET doc == store[be][NameOf[c]].docs[i]
            IN  /\ NonBlank(doc.text)
                /\ doc.course = c
                /\ \E f \in Files : CutFrom(doc, <<f>>)
    /\ last.op = "save" =>
        LET built == Extracted[last.course][last.batch]
        IN  /\ Len(built.chunks) = Len(built.metas)
            /\ \A i \in 1..Len(built.chunks) :
                /\ NonBlank(built.chunks[i])
                /\ built.metas[i].course = last.course
                /\ CutFrom([text |-> built.chunks[i], source |-> built.metas[i].source],
                           last.batch)
            /\ last.ret > 0 =>
                LET docs == store[last.be][NameOf[last.course]].docs
                    n == Len(built.chunks)
                IN  /\ Len(docs) >= n
                    /\ SubSeq(docs, Len(docs) - n + 1, Len(docs))
                         = [i \in 1..n |->
                                [text |-> built.chunks[i],
                                 source |-> built.metas[i].source,
                                 course |-> built.metas[i].course]]

\* A save stored the passages of a file that has a blank chunk too.
C29_Witness ==
    /\ last.op = "save"
    /\ last.ret > 0
    /\ \E i \in 1..Len(last.batch) : \E j \in 1..Len(last.batch[i].chunks) :
            ~NonBlank(last.batch[i].chunks[j])
    /\ store[last.be][NameOf[last.course]].docs # <<>>

\* C30: retrieval and status agree in every state, after a failed save or
\* delete too: whenever _get_relevant_documents would return passages for a
\* course, check_course_status called at the same moment reports the course
\* ready, and every passage returned is stored in the course's collection.
C30_RetrievalAgreesWithStatus ==
    \A c \in Courses : \A s \in SearchesOf(c) :
        LET docs == RetrievedNowOk(c, s[1], s[2])
        IN  docs # <<>> =>
                /\ StatusNowOk(c).is_ready
                /\ \A i \in 1..Len(docs) :
                    \E j \in 1..Len(CollectionNow(c).docs) : CollectionNow(c).docs[j] = docs[i]

\* C31: a transient failure is not remembered beyond the cache window: when
\* the last call was a retrieval for an indexed course that failed at a call
\* on the backend, and every entry of st.cache_data has since expired, a
\* _get_relevant_documents call for the course that finds the backend
\* answering returns passages of the course.
C31_FailureForgotten ==
    \A c \in Courses : \A s \in SearchesOf(c) :
        (/\ last.op \in {"retrieve", "retriever"}
         /\ last.course = c
         /\ last.fault /\ last.failed # "emb"
         /\ Indexed(last.had)
         /\ Indexed(CollectionNow(c))
         /\ \A key \in DataKeys : ~dc[key].hit) =>
            RetrievedNowOk(c, s[1], s[2]) # <<>>

\* C32: _clear_course_cache(C) clears the cached data of course C only: after
\* a delete_course(C), or a save_upload_and_index(C) that stored passages, the
\* retrieval results and vector-store entries of every other course, the
\* embedding model and the backend client are still cached.
C32_ClearsOneCourse ==
    [][(/\ ops' = ops + 1
        /\ \/ last'.op = "delete"
           \/ last'.op = "save" /\ last'.ret > 0) =>
            /\ rc'.client # "none"
            /\ rc.emb => rc'.emb
            /\ \A c \in AllCourses \ {last'.course} : rc'.vs[c] = rc.vs[c]
            /\ \A key \in DataKeys : key[1] # last'.course => dc'[key] = dc[key]]_vars

\* C33: delete_course(A) removes only the directory of A's own files: for
\* every course name A the files root still exists after the call, and so
\* does the directory of every other course.
C33_DeleteKeepsOtherFiles ==
    [][(ops' = ops + 1 /\ last'.op = "delete") =>
            /\ files'[Root].exists
            /\ \A slug \in Slugs \ {SlugOf[last'.course]} : files'[slug] = files[slug]]_vars

\* C34: course enumeration round-trips: the collection a save can create for
\* a course name is one list_all_courses lists (its name has the course
\* prefix), and the name it is listed under leads back to it:
\* _get_collection_name of the listed name is the name of the collection.
C34_ListedNameLeadsBack ==
    /\ ValidName(_get_collection_name(given)) =>
            StartsWith(_get_collection_name(given), CoursePrefix)
    /\ (named.op = "list" /\ ValidName(named.name)) => named.again = named.name

\* A collection of a name of several words was listed under a name that
\* differs from its slug, and looked up again.
C34_Witness ==
    /\ named.op = "list"
    /\ ValidName(named.name)
    /\ \E i \in 1..Len(named.rag) : named.rag[i] = " "
    /\ named.rag # given
    /\ named.again = named.name

\* C35: the backend choice is stable within a process: a call works with the
\* backend the call before it worked with, also after a save or a delete has
\* cleared the caches and whatever the heartbeat says now; so the status
\* asked after a save that stored passages finds the course ready.
C35_BackendStable ==
    [][(ops' = ops + 1 /\ last.be # "none" /\ last'.be # "none") =>
            /\ last'.be = last.be
            /\ (last.op = "save" /\ last.ret > 0 /\ last'.op = "status"
                    /\ last'.course = last.course /\ ~last'.fault) =>
                    last'.status.is_ready]_vars

\* C36: a retrieval that overlaps a save or a delete of its course leaves no
\* result of before the replacement in the cache: once both calls have
\* returned, every result st.cache_data holds for the course, which a
\* retrieval that starts now returns, is made of passages of the course's
\* current collection.
C36_NoStaleResultLeft ==
    (pc[Writer] = "idle" /\ pc[Reader] = "idle") =>
        \A s \in SearchesOf(Shared) :
            LET entry == dc[<<Shared, s[1], s[2]>>]
                coll == store[Serving][SharedName]
            IN  Fresh(entry) =>
                    \A i \in 1..Len(entry.val) :
                        /\ coll.exists
                        /\ \E j \in 1..Len(coll.docs) : coll.docs[j] = entry.val[i]

\* C37: a SmartCache with max_size >= 1 never holds more than max_size
\* entries, and its three tables have the same keys, each once.
C37_SmartCacheBounded ==
    smart.max_size >= 1 =>
        /\ Len(smart.cache) <= smart.max_size
        /\ KeysOf(smart.cache) = KeysOf(smart.access_times)
        /\ KeysOf(smart.cache) = KeysOf(smart.creation_times)
        /\ Cardinality(KeysOf(smart.cache)) = Len(smart.cache)
        /\ Len(smart.access_times) = Len(smart.cache)
        /\ Len(smart.creation_times) = Len(smart.cache)

\* A set on a full cache evicted an entry and wrote the new one: the cache is
\* full again.
C37_Witness ==
    /\ smart.max_size >= 1
    /\ smart.op = "set" /\ smart.pc = "idle"
    /\ Len(smart.cache) = smart.max_size
    /\ smart.note = "evicted"
    /\ Has(smart.cache, smart.key)

\* The limit that applies to a get: the ttl argument if given, else default_ttl.
LimitOf(c, ttl) == IF ttl = <<>> THEN c.default_ttl ELSE ttl[1]

\* C38: SmartCache.get(key, ttl) never returns an expired entry: when the
\* entry is older than the limit that applies, get returns None and the key
\* is gone from the three tables; and a get that returns a value returns the
\* cached one of an entry within its limit and changes nothing but the access
\* time of that entry.
C38_GetNeverExpired ==
    [][(smart'.op = "get" /\ smart'.flip # smart.flip) =>
        LET key == smart'.key
            old == Has(smart.cache, key)
                   /\ smart.now - At(smart.creation_times, key) > LimitOf(smart, smart'.ttl)
        IN  /\ (Has(smart.cache, key) /\ old) =>
                    /\ smart'.ret = "None"
                    /\ ~Has(smart'.cache, key)
                    /\ ~Has(smart'.access_times, key)
                    /\ ~Has(smart'.creation_times, key)
            /\ smart'.ret # "None" =>
                    /\ Has(smart.cache, key) /\ ~old
                    /\ smart'.ret = At(smart.cache, key)
                    /\ smart'.cache = smart.cache
                    /\ smart'.creation_times = smart.creation_times
                    /\ Pop(smart'.access_times, key) = Pop(smart.access_times, key)
                    /\ At(smart'.access_times, key) = smart.now]_vars

\* A get with a ttl shorter than default_ttl met an entry older than that ttl,
\* and not older than default_ttl, and removed it.
C38_Witness ==
    /\ smart.op = "get"
    /\ smart.ttl # <<>>
    /\ smart.ret = "None"
    /\ smart.note = "expired"
    /\ smart.now <= SmartTtl
    /\ ~Has(smart.cache, smart.key)
    /\ ~Has(smart.creation_times, smart.key)

\* C39: SmartCache.set(key, value) terminates for every max_size >= 0 and
\* every cache content: a set call that has begun returns.
C39_SetTerminates == (smart.pc = "set") ~> (smart.pc = "idle")

\* C40: SmartCache.set(key, value) for a key that is in the cache overwrites
\* that entry only: every other entry the call found in the cache is in it
\* with the same value when the call returns, also when the cache is full.
C40_SetKeepsOtherEntries ==
    [][(smart.pc = "set" /\ smart'.pc = "idle" /\ Has(smart.before, smart.key)) =>
            \A other \in KeysOf(smart.before) \ {smart.key} :
                /\ Has(smart'.cache, other)
                /\ At(smart'.cache, other) = At(smart.before, other)]_vars

====
